---- MODULE Spec2Model ----
(***************************************************************************)
(* Model of the ChessGame component (src/src/ChessGame.js): the undo/redo  *)
(* stacks of board snapshots, the move-notation list and the keyboard      *)
(* shortcuts.  The rules engine (chess.js) is an external collaborator; it *)
(* is modelled by a small deterministic rule set on a reduced board that   *)
(* keeps the interface the component relies on: get, move, fen, load and   *)
(* history.                                                                *)
(*                                                                         *)
(* Strings of the program are sequences of one-character strings, so that  *)
(* indexing (targetSquare[1]) and concatenation are what the code does.    *)
(* A square is <<file, rank>>, e.g. <<"e", "4">>.                          *)
(***************************************************************************)
EXTENDS Integers, Sequences, FiniteSets, TLC

VARIABLES
  game,          \* the mutable Chess object: [pos, hist]
  position,      \* useState(game.fen())
  moveHistory,   \* useState([]): sequence of move pairs
  currentPlayer, \* useState("w")
  historyStack,  \* useState([game.fen()])
  redoStack,     \* useState([])
  kd,            \* state captured by the registered keydown listener
  lastOp,        \* the handler that ran last
  outcome,       \* what the handler that ran last did
  ret,           \* value returned by the handler that ran last
  pre,           \* component state when the handler that ran last started
  sinceMove      \* whether an accepted move is the latest change of line

vars == <<game, position, moveHistory, currentPlayer, historyStack, redoStack,
          kd, lastOp, outcome, ret, pre, sinceMove>>

core == <<position, moveHistory, currentPlayer, historyStack, redoStack>>

----------------------------------------------------------------------------
(* Bounds *)

\* Plies the engine accepts along one line of play.
MaxPly == 3

----------------------------------------------------------------------------
(* The board of the rules engine *)

\* The reduced board: two files, and the two ranks at each end of the board,
\* adjacent in this order.
Files == <<"a", "b">>
Ranks == <<"1", "2", "7", "8">>

Squares == {<<Files[i], Ranks[j]>> : i \in 1..Len(Files), j \in 1..Len(Ranks)}

FileIdx(sq) == CHOOSE i \in 1..Len(Files) : Files[i] = sq[1]
RankIdx(sq) == CHOOSE j \in 1..Len(Ranks) : Ranks[j] = sq[2]

Abs(n) == IF n < 0 THEN -n ELSE n
Sgn(n) == IF n < 0 THEN -1 ELSE IF n > 0 THEN 1 ELSE 0

Undefined == "undefined"

NoPiece == [type |-> "none", color |-> "none"]
Pc(t, c) == [type |-> t, color |-> c]

Flip_same(c) == c

Flip(c) == IF c = "w" THEN "b" ELSE "w"

\* The position a new Chess() starts from, on the reduced board.
\* A board maps its occupied squares to their pieces.
StartBoard ==
  [sq \in {<<"a", "7">>, <<"a", "1">>, <<"b", "2">>, <<"b", "8">>} |->
     CASE sq = <<"a", "7">> -> Pc("p", "w")
       [] sq = <<"a", "1">> -> Pc("n", "w")
       [] sq = <<"b", "2">> -> Pc("p", "b")
       [] sq = <<"b", "8">> -> Pc("n", "b")]

At(board, sq) == IF sq \in DOMAIN board THEN board[sq] ELSE NoPiece

\* A serialized position (FEN): placement, side to move, move counter.
StartFen == [board |-> StartBoard, turn |-> "w", ply |-> 0]

NewChess == [pos |-> StartFen, hist |-> <<>>]

\* game.fen()
fen(g) == g.pos

\* game.get(square): the piece on the square, NoPiece standing for null.
get(g, sq) == At(g.pos.board, sq)

load_keeps(g, f) == g

\* game.load(fen): replaces the position and clears the engine's move history.
load(g, f) == [pos |-> f, hist |-> <<>>]

\* game.history(): the moves made since the last load, as SAN strings.
history(g) == g.hist

LastRank(c) == IF c = "w" THEN "8" ELSE "1"

PathClear(board, from, to) ==
  LET df == Sgn(FileIdx(to) - FileIdx(from))
      dr == Sgn(RankIdx(to) - RankIdx(from))
      n  == IF Abs(FileIdx(to) - FileIdx(from)) > Abs(RankIdx(to) - RankIdx(from))
              THEN Abs(FileIdx(to) - FileIdx(from))
              ELSE Abs(RankIdx(to) - RankIdx(from))
  IN \A k \in 1..(n - 1) :
       <<Files[FileIdx(from) + k * df], Ranks[RankIdx(from) + k * dr]>> \notin DOMAIN board

\* Whether the piece on from may go to to, promotion aside.
Reaches(pos, from, to) ==
  LET p  == At(pos.board, from)
      q  == At(pos.board, to)
      df == FileIdx(to) - FileIdx(from)
      dr == RankIdx(to) - RankIdx(from)
      fwd == IF p.color = "w" THEN 1 ELSE -1
  IN /\ from # to
     /\ p # NoPiece
     /\ p.color = pos.turn
     /\ q.color # p.color
     /\ CASE p.type = "p" ->
               /\ dr = fwd
               /\ \/ df = 0 /\ q = NoPiece
                  \/ Abs(df) = 1 /\ q # NoPiece
          [] p.type = "n" ->
               <<Abs(df), Abs(dr)>> \in {<<1, 2>>, <<2, 1>>}
          [] p.type = "q" ->
               /\ (df = 0 \/ dr = 0 \/ Abs(df) = Abs(dr))
               /\ PathClear(pos.board, from, to)
          [] OTHER -> FALSE

PromotionPieces == {"q", "r", "b", "n"}

IsPromotionMove(pos, from, to) ==
  At(pos.board, from).type = "p" /\ to[2] = LastRank(At(pos.board, from).color)

\* Whether game.move({from, to, promotion}) is accepted.
Legal(pos, from, to, promotion) ==
  /\ from \in Squares /\ to \in Squares
  /\ Reaches(pos, from, to)
  /\ IF IsPromotionMove(pos, from, to)
       THEN promotion \in PromotionPieces
       ELSE promotion = Undefined

\* The move object game.move returns for an accepted move.
MoveObject(pos, from, to, promotion) ==
  [color     |-> pos.turn,
   from      |-> from,
   to        |-> to,
   piece     |-> At(pos.board, from).type,
   captured  |-> IF to \in DOMAIN pos.board THEN pos.board[to].type ELSE Undefined,
   promotion |-> promotion]

\* The position after an accepted move.
Moved(pos, from, to, promotion) ==
  LET p == At(pos.board, from)
      placed == IF promotion = Undefined THEN p ELSE Pc(promotion, p.color)
  IN [board |-> [sq \in (DOMAIN pos.board \ {from}) \cup {to} |->
                   IF sq = to THEN placed ELSE pos.board[sq]],
      turn  |-> Flip(pos.turn),
      ply   |-> pos.ply + 1]

\* game.move({from, to, promotion}): the engine after an accepted move.
move(g, from, to, promotion) ==
  [pos  |-> Moved(g.pos, from, to, promotion),
   hist |-> Append(g.hist, MoveObject(g.pos, from, to, promotion))]

----------------------------------------------------------------------------
(* The component *)

Keys == {"ArrowLeft", "ArrowRight", "Escape"}

Last(s) == s[Len(s)]
\* Array.prototype.slice(0, -1)
DropLast(s) == SubSeq(s, 1, Len(s) - 1)

\* The flat list of notation entries of a list of move pairs.
RECURSIVE Flatten(_)
Flatten(pairs) ==
  IF pairs = <<>> THEN <<>> ELSE Flatten(DropLast(pairs)) \o Last(pairs)

\* What the handler that ran last did, as far as the next handler's effect
\* depends on it.
Step ==
  IF lastOp = "onDrop" /\ outcome.result = "accepted" THEN "move"
  ELSE IF lastOp = "undoMove" /\ outcome.result = "effective" THEN "undo"
  ELSE "other"

\* The state the handlers read and set, and the step that led to it.
Snapshot ==
  [position      |-> position,
   moveHistory   |-> moveHistory,
   currentPlayer |-> currentPlayer,
   historyStack  |-> historyStack,
   redoStack     |-> redoStack,
   step          |-> Step]

\* What a render's closures capture.
Closure(hs, rs, cp) == [historyStack |-> hs, redoStack |-> rs, currentPlayer |-> cp]

pieceNotation(piece) ==
  CASE piece = "p" -> <<>>
    [] piece = "r" -> <<"R">>
    [] piece = "n" -> <<"N">>
    [] piece = "b" -> <<"B">>
    [] piece = "q" -> <<"Q">>
    [] piece = "k" -> <<"K">>
    [] OTHER -> <<Undefined>>

toUpperCase(c) ==
  CASE c = "q" -> "Q"
    [] c = "r" -> "R"
    [] c = "n" -> "N"
    [] c = "b" -> "B"
    [] c = "k" -> "K"
    [] c = "p" -> "P"
    [] OTHER -> c

\* A value appended to a string with +=.
Text(v) == IF v = Undefined THEN <<Undefined>> ELSE v

Notation_plainCapture(mv, sourceSquare) ==
  LET n1 == pieceNotation(mv.piece)
      n2 == IF mv.captured # Undefined THEN n1 \o <<"x">> ELSE n1
      n3 == n2 \o Text(mv.to)
  IN IF mv.promotion # Undefined
       THEN n3 \o <<"=", toUpperCase(mv.promotion)>>
       ELSE n3

\* The notation string updateMoveHistory builds for a move.
Notation(mv, sourceSquare) ==
  LET n1 == pieceNotation(mv.piece)
      n2 == IF mv.captured # Undefined
              THEN n1 \o (IF mv.piece = "p" THEN <<sourceSquare[1]>> ELSE <<>>) \o <<"x">>
              ELSE n1
      n3 == n2 \o Text(mv.to)
  IN IF mv.promotion # Undefined
       THEN n3 \o <<"=", toUpperCase(mv.promotion)>>
       ELSE n3

\* The setMoveHistory updater of updateMoveHistory.
AddNotation(prevHistory, notation) ==
  LET lastMovePair == IF prevHistory = <<>> THEN <<>> ELSE Last(prevHistory)
  IN IF Len(lastMovePair) < 2
       THEN Append(DropLast(prevHistory), Append(lastMovePair, notation))
       ELSE Append(prevHistory, <<notation>>)

updateMoveHistory(prevHistory, mv, sourceSquare) ==
  AddNotation(prevHistory, Notation(mv, sourceSquare))

RemoveNotation_keepsPair(prevHistory) ==
  LET lastMovePair == IF prevHistory = <<>> THEN <<>> ELSE Last(prevHistory)
      updatedPair  == DropLast(lastMovePair)
  IN Append(DropLast(prevHistory), updatedPair)

\* The setMoveHistory updater of undoMove.
RemoveNotation(prevHistory) ==
  LET lastMovePair == IF prevHistory = <<>> THEN <<>> ELSE Last(prevHistory)
      updatedPair  == DropLast(lastMovePair)
  IN IF Len(updatedPair) = 0
       THEN DropLast(prevHistory)
       ELSE Append(DropLast(prevHistory), updatedPair)

saveGameState_skips(prevStack, f) == prevStack

saveGameState(prevStack, f) == Append(prevStack, f)

Effect_redoOnly ==
  kd' = IF redoStack' # redoStack
          THEN Closure(historyStack', redoStack', currentPlayer')
          ELSE kd

\* The effect that registers the keydown listener runs again when
\* historyStack or redoStack changed.
Effect ==
  kd' = IF historyStack' # historyStack \/ redoStack' # redoStack
          THEN Closure(historyStack', redoStack', currentPlayer')
          ELSE kd

Init ==
  /\ game = NewChess
  /\ position = fen(NewChess)
  /\ moveHistory = <<>>
  /\ currentPlayer = "w"
  /\ historyStack = <<fen(NewChess)>>
  /\ redoStack = <<>>
  /\ kd = Closure(<<fen(NewChess)>>, <<>>, "w")
  /\ lastOp = "init"
  /\ outcome = [result |-> "none", case |-> "none"]
  /\ ret = "none"
  /\ pre = [position |-> fen(NewChess), moveHistory |-> <<>>, currentPlayer |-> "w",
            historyStack |-> <<fen(NewChess)>>, redoStack |-> <<>>, step |-> "other"]
  /\ sinceMove = "none"

DropPromotion_rook(sourceSquare, targetSquare) ==
  IF get(game, sourceSquare).type = "p" /\ (targetSquare[2] = "8" \/ targetSquare[2] = "1")
    THEN "r" ELSE Undefined

\* The promotion piece onDrop sends to the engine.
DropPromotion(sourceSquare, targetSquare) ==
  IF get(game, sourceSquare).type = "p" /\ (targetSquare[2] = "8" \/ targetSquare[2] = "1")
    THEN "q" ELSE Undefined

\* Whether the engine accepts the move onDrop sends.
DropAccepted(sourceSquare, targetSquare) ==
  /\ get(game, sourceSquare) # NoPiece
  /\ Legal(game.pos, sourceSquare, targetSquare, DropPromotion(sourceSquare, targetSquare))

\* The kind of drop, whatever the engine says of it.
DropCase(sourceSquare, targetSquare) ==
  IF sourceSquare = targetSquare THEN "sameSquare"
  ELSE IF get(game, sourceSquare) = NoPiece THEN "noPiece"
  ELSE "other"

\* setRedoStack([]) of onDrop.
redoAfterMove_keeps(prevRedo) == prevRedo

redoAfterMove(prevRedo) == <<>>

\* A rejected drop: game.move returns null or throws, or reading the type of
\* the piece throws; onDrop returns false on either path.
RejectedDrop_clears ==
  /\ ret' = "false"
  /\ redoStack' = <<>>
  /\ UNCHANGED <<game, position, moveHistory, currentPlayer, historyStack, sinceMove>>

RejectedDrop ==
  /\ ret' = "false"
  /\ UNCHANGED <<game, position, moveHistory, currentPlayer, historyStack,
                 redoStack, sinceMove>>

onDrop(sourceSquare, targetSquare) ==
  /\ lastOp' = "onDrop"
  /\ pre' = Snapshot
  /\ IF DropAccepted(sourceSquare, targetSquare)
       THEN LET promotion == DropPromotion(sourceSquare, targetSquare)
                mv        == MoveObject(game.pos, sourceSquare, targetSquare, promotion)
                newGame   == move(game, sourceSquare, targetSquare, promotion)
                newFEN    == fen(newGame)
            IN /\ game' = newGame
               /\ position' = newFEN
               /\ moveHistory' = updateMoveHistory(moveHistory, mv, sourceSquare)
               /\ currentPlayer' = Flip(currentPlayer)
               /\ historyStack' = saveGameState(historyStack, newFEN)
               /\ redoStack' = redoAfterMove(redoStack)
               /\ outcome' = [result |-> "accepted",
                              case |-> DropCase(sourceSquare, targetSquare)]
               /\ ret' = "true"
               /\ sinceMove' = IF redoStack # <<>> THEN "afterUndo" ELSE "plain"
       ELSE /\ outcome' = [result |-> "rejected",
                           case |-> DropCase(sourceSquare, targetSquare)]
            /\ RejectedDrop
  /\ Effect

\* historyStack[historyStack.length - 2]
previousState_last(hs) == hs[Len(hs)]

previousState(hs) == hs[Len(hs) - 1]

\* prevStack.slice(0, -1) of undoMove.
popHistory_first(prevStack) == Tail(prevStack)

popHistory(prevStack) == DropLast(prevStack)

\* historyStack[historyStack.length - 1], which undoMove pushes on redoStack.
undoneState_previous(hs) == hs[Len(hs) - 1]

undoneState(hs) == hs[Len(hs)]

\* The early return of undoMove.
UndoNothing_flips ==
  /\ currentPlayer' = Flip(currentPlayer)
  /\ UNCHANGED <<game, position, moveHistory, historyStack, redoStack, sinceMove>>

UndoNothing ==
  UNCHANGED <<game, position, moveHistory, currentPlayer, historyStack,
              redoStack, sinceMove>>

undoMove ==
  /\ lastOp' = "undoMove"
  /\ pre' = Snapshot
  /\ ret' = "none"
  /\ IF Len(kd.historyStack) <= 1
       THEN /\ outcome' = [result |-> "noop", case |-> "none"]
            /\ UndoNothing
       ELSE LET prevState == previousState(kd.historyStack)
            IN /\ game' = load(game, prevState)
               /\ position' = prevState
               /\ historyStack' = popHistory(historyStack)
               /\ moveHistory' = RemoveNotation(moveHistory)
               /\ redoStack' = Append(redoStack, undoneState(kd.historyStack))
               /\ currentPlayer' = Flip(kd.currentPlayer)
               /\ outcome' = [result |-> "effective", case |-> "none"]
               /\ sinceMove' = "none"
  /\ Effect

\* redoStack[redoStack.length - 1]
redoState_bottom(rs) == rs[1]

redoState(rs) == rs[Len(rs)]

\* The early return of redoMove.
RedoNothing_flips ==
  /\ currentPlayer' = Flip(currentPlayer)
  /\ UNCHANGED <<game, position, moveHistory, historyStack, redoStack, sinceMove>>

RedoNothing ==
  UNCHANGED <<game, position, moveHistory, currentPlayer, historyStack,
              redoStack, sinceMove>>

\* What reading a field of a SAN string (an element of game.history()) gives.
SanField == Undefined

redoMove ==
  /\ lastOp' = "redoMove"
  /\ pre' = Snapshot
  /\ ret' = "none"
  /\ IF Len(kd.redoStack) = 0
       THEN /\ outcome' = [result |-> "noop", case |-> "none"]
            /\ RedoNothing
       ELSE LET rState == redoState(kd.redoStack)
                loaded == load(game, rState)
                sans   == history(loaded)
                mv     == [from |-> SanField, to |-> SanField, piece |-> SanField,
                           captured |-> SanField, promotion |-> SanField]
            IN /\ game' = loaded
               /\ position' = rState
               /\ historyStack' = Append(historyStack, rState)
               /\ redoStack' = DropLast(redoStack)
               /\ moveHistory' = IF sans # <<>>
                                   THEN updateMoveHistory(moveHistory, mv, mv.from)
                                   ELSE moveHistory
               /\ currentPlayer' = Flip(kd.currentPlayer)
               /\ outcome' = [result |-> "effective", case |-> "none"]
               /\ UNCHANGED sinceMove
  /\ Effect

handleKeyDown_swapped(key) ==
  IF key = "ArrowLeft" THEN redoMove
  ELSE IF key = "ArrowRight" THEN undoMove
  ELSE /\ lastOp' = "otherKey"
       /\ pre' = Snapshot
       /\ ret' = "none"
       /\ outcome' = [result |-> "ignored", case |-> "none"]
       /\ UNCHANGED <<game, position, moveHistory, currentPlayer, historyStack,
                      redoStack, sinceMove>>
       /\ Effect

handleKeyDown(key) ==
  IF key = "ArrowLeft" THEN undoMove
  ELSE IF key = "ArrowRight" THEN redoMove
  ELSE /\ lastOp' = "otherKey"
       /\ pre' = Snapshot
       /\ ret' = "none"
       /\ outcome' = [result |-> "ignored", case |-> "none"]
       /\ UNCHANGED <<game, position, moveHistory, currentPlayer, historyStack,
                      redoStack, sinceMove>>
       /\ Effect

\* A piece is dropped on the board.
PieceDrop ==
  \E sourceSquare \in Squares, targetSquare \in Squares :
    /\ DropAccepted(sourceSquare, targetSquare) => game.pos.ply < MaxPly
    /\ onDrop(sourceSquare, targetSquare)

\* A key is pressed.
KeyDown == \E key \in Keys : handleKeyDown(key)

Next == PieceDrop \/ KeyDown

Spec == Init /\ [][Next]_vars

----------------------------------------------------------------------------
(* Properties *)

NotationCount(pairs) == Len(Flatten(pairs))

AcceptedDrop == lastOp = "onDrop" /\ outcome.result = "accepted"
EffectiveUndo == lastOp = "undoMove" /\ outcome.result = "effective"
EffectiveRedo == lastOp = "redoMove" /\ outcome.result = "effective"

\* C1: after a drop the engine accepted, position is the engine's new
\* position, that position is appended to historyStack, redoStack is empty,
\* currentPlayer is flipped, the notation list has exactly one more entry
\* (the old entries kept in order) and onDrop returned true.
C1_AcceptedDropRecorded ==
  AcceptedDrop =>
    /\ position = fen(game)
    /\ position # pre.position
    /\ historyStack = Append(pre.historyStack, fen(game))
    /\ redoStack = <<>>
    /\ currentPlayer = Flip(pre.currentPlayer)
    /\ NotationCount(moveHistory) = NotationCount(pre.moveHistory) + 1
    /\ DropLast(Flatten(moveHistory)) = Flatten(pre.moveHistory)
    /\ ret = "true"

C1_Witness == AcceptedDrop /\ pre.redoStack # <<>> /\ Len(historyStack) = 3

\* C2: a drop that is rejected (refused by the engine, origin equal to
\* destination, or no piece on the origin square) returns false and leaves
\* position, historyStack, redoStack, the notation list and currentPlayer
\* as they were.
C2_RejectedDropChangesNothing ==
  (lastOp = "onDrop" /\ (outcome.result = "rejected" \/ outcome.case # "other")) =>
    /\ ret = "false"
    /\ position = pre.position
    /\ historyStack = pre.historyStack
    /\ redoStack = pre.redoStack
    /\ moveHistory = pre.moveHistory
    /\ currentPlayer = pre.currentPlayer

C2_Witness ==
  /\ lastOp = "onDrop" /\ outcome.result = "rejected" /\ outcome.case = "other"
  /\ redoStack # <<>> /\ moveHistory # <<>>

\* C3: an undo directly after an accepted move is effective and restores the
\* position and the turn that held before that move.
C3_UndoAfterMoveRestores ==
  [][(AcceptedDrop /\ lastOp' = "undoMove") =>
       /\ outcome'.result = "effective"
       /\ position' = pre.position
       /\ currentPlayer' = pre.currentPlayer]_vars

C3_Witness == EffectiveUndo /\ pre.step = "move" /\ Len(historyStack) = 3

\* C4: a redo directly after an effective undo restores the position and the
\* turn that held before the undo.
C4_RedoAfterUndoRestores ==
  [][(EffectiveUndo /\ lastOp' = "redoMove") =>
       /\ outcome'.result = "effective"
       /\ position' = pre.position
       /\ currentPlayer' = pre.currentPlayer]_vars

C4_Witness == EffectiveRedo /\ pre.step = "undo" /\ Len(redoStack) >= 1

\* C5: a redo directly after an effective undo leaves the notation list that
\* existed before the undo.
C5_RedoRestoresNotation ==
  [][(EffectiveUndo /\ lastOp' = "redoMove") => moveHistory' = pre.moveHistory]_vars

\* C6: the number of notation entries is the length of historyStack minus one.
C6_NotationCountMatchesHistory ==
  NotationCount(moveHistory) = Len(historyStack) - 1

\* C7: an accepted move empties redoStack, and until the next effective undo
\* redoStack stays empty and every redo changes nothing.
C7_RedoIsNoopAfterMove ==
  /\ [](sinceMove # "none" => redoStack = <<>>)
  /\ [][(sinceMove # "none" /\ lastOp' = "redoMove") =>
          /\ outcome'.result = "noop"
          /\ UNCHANGED <<game, position, moveHistory, currentPlayer, historyStack,
                         redoStack>>]_vars

C7_Witness ==
  lastOp = "redoMove" /\ outcome.result = "noop" /\ sinceMove = "afterUndo"

\* C8: an undo when historyStack holds only the initial position changes
\* nothing.
C8_UndoAtInitialIsNoop ==
  [][(Len(historyStack) = 1 /\ lastOp' = "undoMove") =>
       /\ outcome'.result = "noop"
       /\ UNCHANGED <<game, position, moveHistory, currentPlayer, historyStack,
                      redoStack>>]_vars

C8_Witness ==
  /\ lastOp = "undoMove" /\ outcome.result = "noop"
  /\ Len(pre.historyStack) = 1 /\ redoStack # <<>>

\* C9: a redo when redoStack is empty changes nothing.
C9_RedoOnEmptyIsNoop ==
  [][(redoStack = <<>> /\ lastOp' = "redoMove") =>
       /\ outcome'.result = "noop"
       /\ UNCHANGED <<game, position, moveHistory, currentPlayer, historyStack,
                      redoStack>>]_vars

C9_Witness ==
  /\ lastOp = "redoMove" /\ outcome.result = "noop"
  /\ pre.redoStack = <<>> /\ Len(historyStack) >= 2

\* C10: historyStack is never empty and its first element is the initial
\* position.
C10_InitialPositionStays ==
  Len(historyStack) >= 1 /\ historyStack[1] = StartFen

C10_Witness == EffectiveUndo /\ Len(historyStack) = 1 /\ Len(redoStack) >= 2

Changed(op) == lastOp = op /\ outcome.result \in {"accepted", "effective"}

\* C11: an accepted move, an effective undo and an effective redo each flip
\* currentPlayer once; a rejected drop, an undo at the initial state and a redo
\* with an empty redoStack leave it as it was.
C11_TurnAlternates ==
  /\ (Changed("onDrop") \/ Changed("undoMove") \/ Changed("redoMove")) =>
       (currentPlayer = Flip(pre.currentPlayer) /\ currentPlayer # pre.currentPlayer)
  /\ (lastOp = "onDrop" /\ ret = "false") => currentPlayer = pre.currentPlayer
  /\ (lastOp = "undoMove" /\ Len(pre.historyStack) = 1) => currentPlayer = pre.currentPlayer
  /\ (lastOp = "redoMove" /\ pre.redoStack = <<>>) => currentPlayer = pre.currentPlayer
  /\ (lastOp = "onDrop" /\ ret = "true") => Changed("onDrop")
  /\ (lastOp = "undoMove" /\ Len(pre.historyStack) > 1) => Changed("undoMove")
  /\ (lastOp = "redoMove" /\ pre.redoStack # <<>>) => Changed("redoMove")

C11_Witness ==
  Changed("redoMove") /\ pre.step = "other" /\ currentPlayer = "w" /\ redoStack # <<>>

EndsWith(str, suffix) ==
  /\ Len(str) >= Len(suffix)
  /\ SubSeq(str, Len(str) - Len(suffix) + 1, Len(str)) = suffix

\* The move the engine applied last (valid right after an accepted drop).
AppliedMove == Last(game.hist)

\* C12: an accepted drop of a pawn onto rank 8 or rank 1 is applied as a queen
\* promotion and its notation entry ends in "=Q"; every other accepted drop is
\* applied without a promotion; and in every state, the promotion piece onDrop
\* would send for any drop is "q" for a pawn dropped on rank 8 or 1 and
\* nothing otherwise.
C12_QueenPromotion ==
  /\ AcceptedDrop =>
       IF AppliedMove.piece = "p" /\ AppliedMove.to[2] \in {"8", "1"}
         THEN /\ AppliedMove.promotion = "q"
              /\ At(position.board, AppliedMove.to) = Pc("q", AppliedMove.color)
              /\ EndsWith(Last(Flatten(moveHistory)), <<"=", "Q">>)
         ELSE /\ AppliedMove.promotion = Undefined
              /\ At(position.board, AppliedMove.to) = Pc(AppliedMove.piece, AppliedMove.color)
              /\ \A i \in 1..Len(Last(Flatten(moveHistory))) :
                   Last(Flatten(moveHistory))[i] # "="
  /\ \A sourceSquare \in Squares, targetSquare \in Squares :
       DropPromotion(sourceSquare, targetSquare) =
         IF get(game, sourceSquare).type = "p" /\ targetSquare[2] \in {"8", "1"}
           THEN "q" ELSE Undefined

C12_Witness ==
  /\ AcceptedDrop /\ AppliedMove.promotion = "q" /\ AppliedMove.color = "b"
  /\ AppliedMove.captured # Undefined

----------------------------------------------------------------------------
(* updateMoveHistory on every move record *)

NotationPieces == {"p", "r", "n", "b", "q", "k"}

\* The move objects updateMoveHistory may be given.
MoveRecords ==
  [color     : {"w"},
   from      : Squares,
   to        : Squares,
   piece     : NotationPieces,
   captured  : {Undefined, "p", "q"},
   promotion : {Undefined} \cup PromotionPieces]

\* Notation lists with no entry, an open pair and a full pair.
PriorLists == {<<>>, <<<<<<"a", "8">>>>>>, <<<<<<"a", "8">>, <<"N", "a", "2">>>>>>}

InitNotation ==
  /\ \E mv \in MoveRecords : game = [pos |-> StartFen, hist |-> <<mv>>]
  /\ position = StartFen
  /\ moveHistory \in PriorLists
  /\ currentPlayer = "w"
  /\ historyStack = <<StartFen>>
  /\ redoStack = <<>>
  /\ kd = Closure(<<StartFen>>, <<>>, "w")
  /\ lastOp = "init"
  /\ outcome = [result |-> "none", case |-> "none"]
  /\ ret = "none"
  /\ pre = [position |-> StartFen, moveHistory |-> <<>>, currentPlayer |-> "w",
            historyStack |-> <<StartFen>>, redoStack |-> <<>>, step |-> "other"]
  /\ sinceMove = "none"

\* updateMoveHistory(move, sourceSquare) on the engine's last move.
RecordNotation ==
  /\ lastOp = "init"
  /\ lastOp' = "updateMoveHistory"
  /\ pre' = Snapshot
  /\ moveHistory' = updateMoveHistory(moveHistory, AppliedMove, AppliedMove.from)
  /\ UNCHANGED <<game, position, currentPlayer, historyStack, redoStack, kd,
                 outcome, ret, sinceMove>>

NextNotation == RecordNotation

SpecNotation == InitNotation /\ [][NextNotation]_vars

PieceLetters ==
  [p |-> <<>>, r |-> <<"R">>, n |-> <<"N">>, b |-> <<"B">>, q |-> <<"Q">>, k |-> <<"K">>]

UpperCase == [q |-> "Q", r |-> "R", b |-> "B", n |-> "N"]

\* The notation the policy prescribes for a move record.
PolicyNotation(mv) ==
  PieceLetters[mv.piece]
    \o (IF mv.captured = Undefined THEN <<>>
        ELSE IF mv.piece = "p" THEN <<mv.from[1], "x">> ELSE <<"x">>)
    \o <<mv.to[1], mv.to[2]>>
    \o (IF mv.promotion = Undefined THEN <<>> ELSE <<"=", UpperCase[mv.promotion]>>)

\* C13: the entry updateMoveHistory appends for a move record is the piece
\* letter (none for a pawn), then for a capture the origin file (pawns only)
\* and "x", then the destination square, then for a promotion "=" and the
\* uppercase promotion letter, and nothing else; earlier entries are kept.
C13_NotationFormat ==
  lastOp = "updateMoveHistory" =>
    /\ Last(Flatten(moveHistory)) = PolicyNotation(AppliedMove)
    /\ DropLast(Flatten(moveHistory)) = Flatten(pre.moveHistory)

C13_Witness ==
  /\ lastOp = "updateMoveHistory"
  /\ AppliedMove.piece = "p" /\ AppliedMove.captured = "q"
  /\ Last(Flatten(moveHistory)) = <<"a", "x", "b", "8", "=", "Q">>
  /\ Len(moveHistory) = 2

----------------------------------------------------------------------------

\* C14: a step is a press of ArrowLeft exactly when it is an undo, a press of
\* ArrowRight exactly when it is a redo, and a press of any other key leaves
\* position, historyStack, redoStack, the notation list and currentPlayer (and
\* the engine) as they were.
C14_KeysMapToUndoRedo ==
  [][/\ handleKeyDown("ArrowLeft") <=> undoMove
     /\ handleKeyDown("ArrowRight") <=> redoMove
     /\ handleKeyDown("ArrowLeft") =>
          IF Len(historyStack) <= 1
            THEN UNCHANGED core
            ELSE /\ historyStack' = DropLast(historyStack)
                 /\ redoStack' = Append(redoStack, Last(historyStack))
                 /\ position' = Last(historyStack')
                 /\ NotationCount(moveHistory') = NotationCount(moveHistory) - 1
                      \/ moveHistory' = <<>>
     /\ handleKeyDown("ArrowRight") =>
          IF redoStack = <<>>
            THEN UNCHANGED core
            ELSE /\ historyStack' = Append(historyStack, Last(redoStack))
                 /\ redoStack' = DropLast(redoStack)
                 /\ position' = Last(redoStack)
     /\ \A key \in Keys \ {"ArrowLeft", "ArrowRight"} :
          handleKeyDown(key) => UNCHANGED <<game, position, moveHistory, currentPlayer,
                                            historyStack, redoStack>>
     /\ lastOp' = "otherKey" =>
          /\ \E key \in Keys \ {"ArrowLeft", "ArrowRight"} : handleKeyDown(key)
          /\ UNCHANGED <<game, position, moveHistory, currentPlayer,
                         historyStack, redoStack>>]_vars

C14_Witness ==
  /\ lastOp = "otherKey" /\ outcome.result = "ignored"
  /\ redoStack # <<>> /\ Len(historyStack) >= 2 /\ pre.step = "undo"

RECURSIVE Reverse(_)
Reverse(seq) == IF seq = <<>> THEN <<>> ELSE Append(Reverse(Tail(seq)), Head(seq))

\* The line of play: the positions in effect, then the undone ones in the
\* order they were played.
Line == historyStack \o Reverse(redoStack)

\* C15: an effective undo moves the last element of historyStack to the top of
\* redoStack, an effective redo moves the top of redoStack to the end of
\* historyStack, and no undo or redo changes the line of play; redoStack grows
\* only by an undo (by one), shrinks by one only by a redo, and otherwise
\* changes only by being emptied by an accepted move.
C15_CursorOnOneLine ==
  [][/\ lastOp' \in {"undoMove", "redoMove", "otherKey"} => Line' = Line
     /\ (lastOp' = "undoMove" /\ Len(historyStack) > 1) =>
          /\ historyStack' = DropLast(historyStack)
          /\ redoStack' = Append(redoStack, Last(historyStack))
     /\ (lastOp' = "redoMove" /\ redoStack # <<>>) =>
          /\ redoStack' = DropLast(redoStack)
          /\ historyStack' = Append(historyStack, Last(redoStack))
     /\ Len(redoStack') > Len(redoStack) =>
          /\ lastOp' = "undoMove"
          /\ Len(redoStack') = Len(redoStack) + 1
     /\ Len(redoStack') < Len(redoStack) =>
          \/ lastOp' = "redoMove" /\ Len(redoStack') = Len(redoStack) - 1
          \/ lastOp' = "onDrop" /\ ret' = "true" /\ redoStack' = <<>>
     /\ (lastOp' = "onDrop" /\ ret' = "false") => redoStack' = redoStack]_vars

C15_Witness ==
  /\ EffectiveUndo /\ Len(redoStack) = 2 /\ Len(historyStack) = 2
  /\ pre.step = "undo"

\* C16: the displayed position, the last element of historyStack and the
\* position of the engine object are the same.
C16_PositionInSync ==
  position = Last(historyStack) /\ position = fen(game)

C16_Witness ==
  /\ lastOp = "onDrop" /\ ret = "false" /\ pre.step = "undo"
  /\ Len(historyStack) = 2 /\ Len(redoStack) = 1 /\ position = fen(game)

\* C17: currentPlayer is the side to move of the current position, and is
\* White exactly when historyStack has odd length.
C17_PlayerMatchesPosition ==
  /\ currentPlayer = position.turn
  /\ currentPlayer = "w" <=> Len(historyStack) % 2 = 1
  /\ currentPlayer \in {"w", "b"}

C17_Witness ==
  /\ EffectiveRedo /\ currentPlayer = "b" /\ Len(historyStack) = 2
  /\ position.turn = "b" /\ redoStack = <<>>

InitialState ==
  /\ position = StartFen
  /\ historyStack = <<StartFen>>
  /\ currentPlayer = "w"
  /\ moveHistory = <<>>

\* C18: every undo with more than one element in historyStack shortens it by
\* one, the notation list never has more entries than moves in effect, and
\* whenever historyStack is down to one element the state is the initial one
\* (initial position, White to move, empty notation list); an undo there is a
\* no-op.
C18_UndosReachInitialState ==
  /\ [](Len(historyStack) = 1 => InitialState)
  /\ [](NotationCount(moveHistory) <= Len(historyStack) - 1)
  /\ [][lastOp' = "undoMove" =>
          IF Len(historyStack) > 1
            THEN Len(historyStack') = Len(historyStack) - 1
            ELSE InitialState /\ InitialState' /\ UNCHANGED redoStack]_vars

C18_Witness ==
  /\ EffectiveUndo /\ InitialState
  /\ pre.moveHistory = <<>> /\ Len(pre.historyStack) = 2

\* C19: the state captured by the registered keydown listener is the current
\* historyStack, redoStack and currentPlayer; the listener is registered again
\* only when historyStack or redoStack changed, and every step that changes
\* currentPlayer or position changes historyStack.
C19_ListenerNeverStale ==
  /\ [](kd = Closure(historyStack, redoStack, currentPlayer))
  /\ [][kd' # kd => (historyStack' # historyStack \/ redoStack' # redoStack)]_vars
  /\ [][(currentPlayer' # currentPlayer \/ position' # position) =>
          historyStack' # historyStack]_vars

C19_Witness ==
  /\ lastOp = "redoMove" /\ outcome.result = "effective" /\ pre.step = "undo"
  /\ kd.currentPlayer = "w" /\ Len(kd.historyStack) = 3 /\ kd.redoStack = <<>>

====
